---- MODULE Spec2Model ----
(***************************************************************************)
(* Model of dirigo_thorlabs_detectors.py: the fixed-function PDA40 adapter *)
(* and the PMT2100 controller adapter that talks SCPI over a VISA          *)
(* resource.  The VISA resource is represented by the log of the transport *)
(* steps (writes and reads) the adapter attempted on it, in order.         *)
(* Voltages are integers in millivolts, frequencies integers in kHz, and   *)
(* texts (commands arguments, responses) are sequences of characters.      *)
(***************************************************************************)
EXTENDS Integers, Sequences, FiniteSets, TLC

VARIABLES
    log,        \* steps attempted on self._res, oldest first
    open,       \* TRUE while the VISA session of self._res is open
    opens,      \* number of rm.open_resource calls made for this handle
    sensor,     \* self._sensor
    call,       \* the property/method call that ran last on the PMT2100 and its outcome
    pdaModel,   \* PDA40._model
    pdaCall,    \* the call that ran last on the PDA40 and its outcome
    pdaRaised   \* number of PDA40 calls that raised so far (capped)

vars == <<log, open, opens, sensor, call, pdaModel, pdaCall, pdaRaised>>
pmtVars == <<log, open, opens, sensor, call>>
pdaVars == <<pdaModel, pdaCall, pdaRaised>>

----------------------------------------------------------------------------
(* Bounds *)

MaxLog == 6          \* longest transport log explored (construction included)
MaxLogFault == 5     \* the same, on the transport whose steps can fail
MaxRaised == 3       \* PDA40 raised-call counter saturates here

----------------------------------------------------------------------------
(* Input sets *)

SensorIds == { <<"H","1","0","7","2","1">>, <<"H","7","4","2","2">> }

Responses == { <<"1">>, <<"0">>, <<"1","\n">>, <<"0",".","7","5">>, <<"?">> }

Voltages == {499, 500, 1000, 1001, 1500}

Frequencies == {80000, 2500, 250, 100000}

PdaModels == {"PDA40A", "PDA44", "PDA45"}

PdaGains == {0, 9, 10}

----------------------------------------------------------------------------
(* Text conversions *)

Whitespace == {" ", "\n", "\r", "\t"}

DigitVal == ("0" :> 0) @@ ("1" :> 1) @@ ("2" :> 2) @@ ("3" :> 3) @@ ("4" :> 4) @@
            ("5" :> 5) @@ ("6" :> 6) @@ ("7" :> 7) @@ ("8" :> 8) @@ ("9" :> 9)

DigitChar == <<"0","1","2","3","4","5","6","7","8","9">>

RECURSIVE Trim(_)
Trim(s) ==
    IF s = <<>> THEN s
    ELSE IF s[1] \in Whitespace THEN Trim(Tail(s))
    ELSE IF s[Len(s)] \in Whitespace THEN Trim(SubSeq(s, 1, Len(s) - 1))
    ELSE s

AllDigits(s) == s # <<>> /\ \A i \in DOMAIN s : s[i] \in DOMAIN DigitVal

RECURSIVE DigitsVal(_)
DigitsVal(s) ==
    IF s = <<>> THEN 0
    ELSE DigitsVal(SubSeq(s, 1, Len(s) - 1)) * 10 + DigitVal[s[Len(s)]]

ParseFail == [ok |-> FALSE, val |-> 0]

\* int(resp): surrounding whitespace is ignored, the rest must be digits
IntOf(s) ==
    LET t == Trim(s) IN
    IF AllDigits(t) THEN [ok |-> TRUE, val |-> DigitsVal(t)] ELSE ParseFail

DotAt(s) == {i \in DOMAIN s : s[i] = "."}

\* a decimal literal "d", "d.d", "d.dd" or "d.ddd" as a number of thousandths
DecimalMilli(s) ==
    IF DotAt(s) = {} THEN
        IF AllDigits(s) THEN [ok |-> TRUE, val |-> DigitsVal(s) * 1000] ELSE ParseFail
    ELSE
        LET d == CHOOSE i \in DotAt(s) : TRUE
            ip == SubSeq(s, 1, d - 1)
            fp == SubSeq(s, d + 1, Len(s))
            scale == CASE Len(fp) = 1 -> 100 [] Len(fp) = 2 -> 10 [] OTHER -> 1
        IN  IF Cardinality(DotAt(s)) = 1 /\ AllDigits(ip) /\ AllDigits(fp) /\ Len(fp) <= 3
            THEN [ok |-> TRUE, val |-> DigitsVal(ip) * 1000 + DigitsVal(fp) * scale]
            ELSE ParseFail

\* units.Voltage(resp): what the quantity parser makes of a response that
\* still carries surrounding whitespace is not fixed by this repository
VoltageOf(s) ==
    IF Trim(s) = s THEN {DecimalMilli(s)} ELSE {DecimalMilli(Trim(s)), ParseFail}

RECURSIVE DigitsOf(_)
DigitsOf(n) ==
    IF n < 10 THEN <<DigitChar[n + 1]>>
    ELSE Append(DigitsOf(n \div 10), DigitChar[(n % 10) + 1])

\* f"{float(value)}" for a value given in millivolts: shortest decimal
\* with at least one fractional digit
FormatFloat(mv) ==
    LET ip == mv \div 1000
        fr == mv % 1000
        fp == IF fr % 100 = 0 THEN <<DigitChar[(fr \div 100) + 1]>>
              ELSE IF fr % 10 = 0
                   THEN <<DigitChar[(fr \div 100) + 1], DigitChar[((fr \div 10) % 10) + 1]>>
                   ELSE <<DigitChar[(fr \div 100) + 1], DigitChar[((fr \div 10) % 10) + 1],
                          DigitChar[(fr % 10) + 1]>>
    IN  DigitsOf(ip) \o <<".">> \o fp

----------------------------------------------------------------------------
(* SCPI commands and the transport *)

Cmd(verb, arg) == [verb |-> verb, arg |-> arg]

NoCmd == Cmd("", <<>>)

CmdDetect == Cmd("SENS:DET?", <<>>)
CmdState(s) == Cmd("SENS:FUNC:STAT?", s)
CmdOn(s) == Cmd("SENS:FUNC:ON", s)
CmdOff(s) == Cmd("SENS:FUNC:OFF", s)
CmdSelGain == Cmd("INST:SEL GAIN", <<>>)
CmdAmplQuery == Cmd(":SOUR:VOLT:LEV:IMM:AMPL?", <<>>)
CmdAmplSet(mv) == Cmd(":SOUR:VOLT:LEV:IMM:AMPL", FormatFloat(mv))
CmdIdn == Cmd("*IDN?", <<>>)
CmdStb == Cmd("*STB?", <<>>)

\* one res.write(cmd) and one blocking read that returned text
W(c) == [k |-> "write", cmd |-> c, text |-> <<>>, ok |-> TRUE]
R(t) == [k |-> "read", cmd |-> NoCmd, text |-> t, ok |-> TRUE]

\* res.write(cmd): a single write
WritePlan(c) == <<W(c)>>

\* res.query(cmd): a write followed by one blocking read
QueryPlan(c, resp) == <<W(c), R(resp)>>

\* variant: the failed step is swallowed and the remaining steps still run
Transport_continue(plan, fault) ==
    IF fault = 0 THEN plan
    ELSE SubSeq(plan, 1, fault - 1)
         \o <<[plan[fault] EXCEPT !.ok = FALSE, !.text = <<>>]>>
         \o SubSeq(plan, fault + 1, Len(plan))

\* variant: the failed step is attempted a second time
Transport_retry(plan, fault) ==
    IF fault = 0 THEN plan
    ELSE SubSeq(plan, 1, fault - 1)
         \o <<[plan[fault] EXCEPT !.ok = FALSE, !.text = <<>>],
              [plan[fault] EXCEPT !.ok = FALSE, !.text = <<>>]>>

\* The steps of a plan are attempted in order; when fault = i > 0 the i-th
\* step fails (I/O error, timeout, invalid session) and nothing follows it.
Transport(plan, fault) ==
    IF fault = 0 THEN plan
    ELSE SubSeq(plan, 1, fault - 1)
         \o <<[plan[fault] EXCEPT !.ok = FALSE, !.text = <<>>]>>

\* which step may fail: none or any one on an open session, the first one
\* on a closed session
FaultAllowed(fault, plan) ==
    /\ IF open THEN fault \in 0..Len(plan) ELSE fault = 1
    /\ Len(log) + Len(Transport(plan, fault)) <= MaxLog

----------------------------------------------------------------------------
(* Call records *)

NoCall == [op |-> "none", num |-> 0, flag |-> FALSE, outcome |-> "none",
           rnum |-> 0, rflag |-> FALSE, rtext |-> <<>>, rmin |-> 0, rmax |-> 0,
           base |-> 0]

Called(op, num, flag) == [NoCall EXCEPT !.op = op, !.num = num, !.flag = flag,
                                        !.base = Len(log)]

Returned(c) == [c EXCEPT !.outcome = "return"]
Raised(c, err) == [c EXCEPT !.outcome = err]

\* the steps the last PMT2100 call attempted
Chunk == SubSeq(log, call.base + 1, Len(log))

----------------------------------------------------------------------------
(* PMT2100 *)

gain_range == [min |-> 500, max |-> 1000]

within_range_strict(r, v) == r.min < v /\ v < r.max

within_range(r, v) == r.min <= v /\ v <= r.max

SupportedBandwidths == {80000, 2500, 250}

InitPMT ==
    /\ \E s \in SensorIds :
          /\ sensor = s
          /\ log = QueryPlan(CmdDetect, s)
    /\ open = TRUE
    /\ opens = 1
    /\ call = [NoCall EXCEPT !.base = 2]

Close ==
    /\ open' = FALSE
    /\ call' = Returned(Called("close", 0, FALSE))
    /\ UNCHANGED <<log, opens, sensor, pdaVars>>

\* variant: a closed session is reopened before the exchange
Exchange_reopen(c, plan, fault, onDone) ==
    /\ FaultAllowed(fault, plan)
    /\ log' = log \o Transport(plan, fault)
    /\ call' = IF fault = 0 THEN onDone ELSE Raised(c, "VisaIOError")
    /\ open' = TRUE
    /\ opens' = IF open THEN opens ELSE opens + 1
    /\ UNCHANGED <<sensor, pdaVars>>

\* shared tail of an operation that only talks to the transport
Exchange(c, plan, fault, onDone) ==
    /\ FaultAllowed(fault, plan)
    /\ log' = log \o Transport(plan, fault)
    /\ call' = IF fault = 0 THEN onDone ELSE Raised(c, "VisaIOError")
    /\ UNCHANGED <<open, opens, sensor, pdaVars>>

\* an operation that raises before it reaches the transport
Reject(c, err) ==
    /\ call' = Raised(c, err)
    /\ UNCHANGED <<log, open, opens, sensor, pdaVars>>

EnabledGetter(resp, fault) ==
    LET c == Called("enabled_get", 0, FALSE) IN
    Exchange(c, QueryPlan(CmdState(sensor), resp), fault,
             Returned([c EXCEPT !.rflag = (resp = <<"1">>)]))

\* variant: the sensor name is the fixed text PMT
EnabledSetter_fixed(state, fault) ==
    LET c == Called("enabled_set", 0, state)
        cmd == IF state THEN CmdOn(<<"P","M","T">>) ELSE CmdOff(<<"P","M","T">>)
    IN  Exchange(c, WritePlan(cmd), fault, Returned(c))

EnabledSetter(state, fault) ==
    LET c == Called("enabled_set", 0, state)
        cmd == IF state THEN CmdOn(sensor) ELSE CmdOff(sensor)
    IN  Exchange(c, WritePlan(cmd), fault, Returned(c))

\* variant: the amplitude is queried before the channel is selected
GainGetter_swapped(resp, fault) ==
    LET c == Called("gain_get", 0, FALSE)
        plan == QueryPlan(CmdAmplQuery, resp) \o WritePlan(CmdSelGain)
    IN  \E p \in VoltageOf(resp) :
            Exchange(c, plan, fault,
                     IF p.ok THEN Returned([c EXCEPT !.rnum = p.val])
                     ELSE Raised(c, "ValueError"))

GainGetter(resp, fault) ==
    LET c == Called("gain_get", 0, FALSE)
        plan == WritePlan(CmdSelGain) \o QueryPlan(CmdAmplQuery, resp)
    IN  \E p \in VoltageOf(resp) :
            Exchange(c, plan, fault,
                     IF p.ok THEN Returned([c EXCEPT !.rnum = p.val])
                     ELSE Raised(c, "ValueError"))

GainSetter(value, fault) ==
    LET c == Called("gain_set", value, FALSE) IN
    IF ~within_range(gain_range, value)
    THEN fault = 0 /\ Reject(c, "ValueError")
    ELSE Exchange(c, WritePlan(CmdSelGain) \o WritePlan(CmdAmplSet(value)), fault,
                  Returned(c))

GainRange ==
    /\ call' = Returned([Called("gain_range", 0, FALSE)
                            EXCEPT !.rmin = gain_range.min, !.rmax = gain_range.max])
    /\ UNCHANGED <<log, open, opens, sensor, pdaVars>>

\* self._res._query is not an attribute of the VISA resource
BandwidthGetter ==
    Reject(Called("bandwidth_get", 0, FALSE), "AttributeError")

\* self._res._write is not an attribute of the VISA resource
BandwidthSetter(freq) ==
    LET c == Called("bandwidth_set", freq, FALSE) IN
    IF freq \notin SupportedBandwidths
    THEN Reject(c, "ValueError")
    ELSE Reject(c, "AttributeError")

Identify(resp, fault) ==
    LET c == Called("identify", 0, FALSE) IN
    Exchange(c, QueryPlan(CmdIdn, resp), fault, Returned([c EXCEPT !.rtext = resp]))

StatusByte(resp, fault) ==
    LET c == Called("status_byte", 0, FALSE)
        p == IntOf(resp)
    IN  Exchange(c, QueryPlan(CmdStb, resp), fault,
                 IF p.ok THEN Returned([c EXCEPT !.rnum = p.val])
                 ELSE Raised(c, "ValueError"))

----------------------------------------------------------------------------
(* PDA40 *)

NoPdaCall == [op |-> "none", num |-> 0, outcome |-> "none",
              rflag |-> FALSE, rnum |-> 0, rmin |-> 0, rmax |-> 0]

PdaCalled(op, num) == [NoPdaCall EXCEPT !.op = op, !.num = num]

InitPDA ==
    /\ pdaModel \in PdaModels
    /\ pdaCall = NoPdaCall
    /\ pdaRaised = 0

PdaReturn(c) ==
    /\ pdaCall' = [c EXCEPT !.outcome = "return"]
    /\ UNCHANGED <<pdaModel, pdaRaised, pmtVars>>

PdaRaise(c) ==
    /\ pdaCall' = [c EXCEPT !.outcome = "NotImplementedError"]
    /\ pdaRaised' = IF pdaRaised < MaxRaised THEN pdaRaised + 1 ELSE pdaRaised
    /\ UNCHANGED <<pdaModel, pmtVars>>

PDA40_enabled_get == PdaReturn([PdaCalled("enabled_get", 0) EXCEPT !.rflag = TRUE])

PDA40_enabled_set(value) == PdaRaise(PdaCalled("enabled_set", IF value THEN 1 ELSE 0))

PDA40_gain_get == PdaRaise(PdaCalled("gain_get", 0))

\* variant: a position inside the manual range is accepted
PDA40_gain_set_accepting(value) ==
    IF value \in 0..9 THEN PdaReturn(PdaCalled("gain_set", value))
    ELSE PdaRaise(PdaCalled("gain_set", value))

PDA40_gain_set(value) == PdaRaise(PdaCalled("gain_set", value))

PDA40_gain_range == PdaReturn([PdaCalled("gain_range", 0) EXCEPT !.rmin = 0, !.rmax = 9])

PDA40_bandwidth_get == PdaReturn([PdaCalled("bandwidth_get", 0) EXCEPT !.rnum = 100000])

PDA40_bandwidth_set(value) == PdaRaise(PdaCalled("bandwidth_set", value))

----------------------------------------------------------------------------
(* Specifications *)

\* a PMT2100 on a transport that works, used until it is closed
Init ==
    /\ InitPMT
    /\ pdaModel = "PDA40A" /\ pdaCall = NoPdaCall /\ pdaRaised = 0

Next ==
    \/ open /\ \E r \in Responses : EnabledGetter(r, 0)
    \/ open /\ \E b \in BOOLEAN : EnabledSetter(b, 0)
    \/ open /\ \E r \in Responses : GainGetter(r, 0)
    \/ open /\ \E v \in Voltages : GainSetter(v, 0)
    \/ open /\ GainRange
    \/ open /\ BandwidthGetter
    \/ open /\ \E f \in Frequencies : BandwidthSetter(f)
    \/ open /\ \E r \in Responses : Identify(r, 0)
    \/ open /\ \E r \in Responses : StatusByte(r, 0)
    \/ Close

Spec == Init /\ [][Next]_vars

\* a PMT2100 on a transport whose steps can fail, also used after close
FaultPoints == 0..3

\* the fault specification explores logs up to MaxLogFault steps
WithinFaultBound == Len(log') <= MaxLogFault

InitFault ==
    /\ InitPMT
    /\ sensor = <<"H","1","0","7","2","1">>
    /\ pdaModel = "PDA40A" /\ pdaCall = NoPdaCall /\ pdaRaised = 0

NextFault ==
    \/ \E r \in Responses, f \in FaultPoints : EnabledGetter(r, f) /\ WithinFaultBound
    \/ \E b \in BOOLEAN, f \in FaultPoints : EnabledSetter(b, f) /\ WithinFaultBound
    \/ \E r \in Responses, f \in FaultPoints : GainGetter(r, f) /\ WithinFaultBound
    \/ \E v \in Voltages, f \in FaultPoints : GainSetter(v, f) /\ WithinFaultBound
    \/ GainRange
    \/ BandwidthGetter
    \/ \E fr \in Frequencies : BandwidthSetter(fr)
    \/ \E r \in Responses, f \in FaultPoints : Identify(r, f) /\ WithinFaultBound
    \/ \E r \in Responses, f \in FaultPoints : StatusByte(r, f) /\ WithinFaultBound
    \/ Close

SpecFault == InitFault /\ [][NextFault]_vars

\* a PDA40
InitPda ==
    /\ InitPDA
    /\ sensor = <<"H","1","0","7","2","1">>
    /\ log = QueryPlan(CmdDetect, sensor)
    /\ open = TRUE /\ opens = 1 /\ call = [NoCall EXCEPT !.base = 2]

NextPda ==
    \/ PDA40_enabled_get
    \/ \E b \in BOOLEAN : PDA40_enabled_set(b)
    \/ PDA40_gain_get
    \/ \E g \in PdaGains : PDA40_gain_set(g)
    \/ PDA40_gain_range
    \/ PDA40_bandwidth_get
    \/ \E f \in Frequencies : PDA40_bandwidth_set(f)

SpecPda == InitPda /\ [][NextPda]_vars

----------------------------------------------------------------------------
(* Properties *)

LastStep == log[Len(log)]

QueryVerbs == {"SENS:DET?", "SENS:FUNC:STAT?", ":SOUR:VOLT:LEV:IMM:AMPL?", "*IDN?", "*STB?",
               ":SENSe:FILTer:LPASs:FREQuency?"}

\* the kind and command verb of every step, without the outcome of the step
Shape(steps) == [i \in DOMAIN steps |-> <<steps[i].k, steps[i].cmd.verb>>]

\* the whole transport exchange of a call that got past its validation
ExchangeShape(c) ==
    CASE c.op = "enabled_get" -> << <<"write", "SENS:FUNC:STAT?">>, <<"read", "">> >>
      [] c.op = "enabled_set" ->
            << <<"write", IF c.flag THEN "SENS:FUNC:ON" ELSE "SENS:FUNC:OFF">> >>
      [] c.op = "gain_get" -> << <<"write", "INST:SEL GAIN">>,
                                 <<"write", ":SOUR:VOLT:LEV:IMM:AMPL?">>, <<"read", "">> >>
      [] c.op = "gain_set" -> << <<"write", "INST:SEL GAIN">>,
                                 <<"write", ":SOUR:VOLT:LEV:IMM:AMPL">> >>
      [] c.op = "identify" -> << <<"write", "*IDN?">>, <<"read", "">> >>
      [] c.op = "status_byte" -> << <<"write", "*STB?">>, <<"read", "">> >>
      [] OTHER -> << >>

\* C1: the PMT2100 gain setter, whatever ran before it, raises ValueError and
\* leaves the transport log as it was when the voltage is outside [0.5 V, 1 V],
\* and otherwise appends exactly two writes to the log: the gain-channel select,
\* then the amplitude-set command whose argument reads back as that voltage.
C1_GainSetterContract ==
    [][call'.op = "gain_set" =>
          IF call'.num < 500 \/ call'.num > 1000
          THEN call'.outcome = "ValueError" /\ log' = log
          ELSE /\ call'.outcome = "return"
               /\ Len(log') = Len(log) + 2
               /\ SubSeq(log', 1, Len(log)) = log
               /\ log'[Len(log) + 1] = W(CmdSelGain)
               /\ LET s == log'[Len(log) + 2] IN
                    /\ s.k = "write" /\ s.ok
                    /\ s.cmd.verb = ":SOUR:VOLT:LEV:IMM:AMPL"
                    /\ DecimalMilli(s.cmd.arg) = [ok |-> TRUE, val |-> call'.num]]_vars

C1_Witness ==
    /\ call.op = "gain_set" /\ call.num = 500 /\ call.outcome = "return"
    /\ call.base > 2 /\ Len(Chunk) = 2

\* C2: the PMT2100 bandwidth setter writes to the transport exactly when the
\* frequency is 80 MHz, 2.5 MHz or 0.25 MHz: then it appends one
\* filter-frequency write and returns; otherwise it raises ValueError and
\* writes nothing.
C2_BandwidthSetterContract ==
    [][call'.op = "bandwidth_set" =>
          IF call'.num \in {80000, 2500, 250}
          THEN /\ call'.outcome = "return"
               /\ Len(log') = Len(log) + 1
               /\ log'[Len(log')].k = "write"
               /\ log'[Len(log')].cmd.verb = ":SENSe:FILTer:LPASs:FREQuency"
          ELSE call'.outcome = "ValueError" /\ log' = log]_vars

C4_EnabledIffTrimmedOne ==
    (call.op = "enabled_get" /\ call.outcome = "return")
        => (call.rflag = (Trim(LastStep.text) = <<"1">>))

\* C5 as stated: a PMT2100 call that raises has either put none of its
\* transport exchange through or all of it.
C5_Atomic ==
    (call.outcome \notin {"none", "return"})
        => \/ \A i \in DOMAIN Chunk : ~Chunk[i].ok
           \/ /\ \A i \in DOMAIN Chunk : Chunk[i].ok
              /\ Shape(Chunk) = ExchangeShape(call)

\* C5 amended: a PMT2100 call is fail-stop, not atomic.  A call that raises
\* on a transport failure has performed, in order, exactly the steps of its
\* exchange that precede the failed step, and attempts nothing after it; a
\* call that returns has completed its whole exchange.
C5_FailStop ==
    /\ call.outcome = "VisaIOError" =>
          /\ Chunk # <<>>
          /\ ~Chunk[Len(Chunk)].ok
          /\ \A i \in 1..(Len(Chunk) - 1) : Chunk[i].ok
          /\ Len(Chunk) <= Len(ExchangeShape(call))
          /\ Shape(Chunk) = SubSeq(ExchangeShape(call), 1, Len(Chunk))
    /\ call.outcome = "return" =>
          /\ \A i \in DOMAIN Chunk : Chunk[i].ok
          /\ call.op \notin {"gain_range", "close"} => Shape(Chunk) = ExchangeShape(call)

C5_Witness ==
    /\ call.op = "gain_set" /\ call.outcome = "VisaIOError"
    /\ Len(Chunk) = 2 /\ Chunk[1] = W(CmdSelGain) /\ ~Chunk[2].ok

\* C6: the transport of a PMT2100 handle is opened once, at construction: no
\* call opens or reopens it, and it goes from open to closed only in a
\* close() call, never in another call or when a call raises.
C6_OpenedOnceClosedByClose ==
    [][/\ opens = 1 /\ opens' = 1
       /\ open' => open
       /\ (open /\ ~open') => call'.op = "close"]_vars

C6_Witness ==
    /\ ~open /\ opens = 1
    /\ call.op = "enabled_set" /\ call.outcome = "VisaIOError"

\* C7: no PMT2100 call retries: a call sends each of its commands at most
\* once, a read happens only right after the write of a query and at most
\* once per call, every query write that went through is followed by one read,
\* and a failed step or an unparsable response ends the call with the failure
\* raised to the caller.
C7_NoRetry ==
    /\ \A i, j \in DOMAIN Chunk :
          (i < j /\ Chunk[i].k = "write" /\ Chunk[j].k = "write")
              => Chunk[i].cmd # Chunk[j].cmd
    /\ Cardinality({i \in DOMAIN Chunk : Chunk[i].k = "read"}) <= 1
    /\ \A i \in DOMAIN Chunk :
          Chunk[i].k = "read"
              => /\ i > 1
                 /\ Chunk[i-1].k = "write" /\ Chunk[i-1].ok
                 /\ Chunk[i-1].cmd.verb \in QueryVerbs
    /\ \A i \in DOMAIN Chunk :
          (Chunk[i].k = "write" /\ Chunk[i].ok /\ Chunk[i].cmd.verb \in QueryVerbs)
              => i < Len(Chunk) /\ Chunk[i+1].k = "read"
    /\ \A i \in DOMAIN Chunk :
          ~Chunk[i].ok => i = Len(Chunk) /\ call.outcome = "VisaIOError"
    /\ (call.op = "status_byte" /\ Chunk # <<>> /\ LastStep.k = "read" /\ LastStep.ok
          /\ ~IntOf(LastStep.text).ok)
          => call.outcome = "ValueError"
    /\ (call.op = "gain_get" /\ Chunk # <<>> /\ LastStep.k = "read" /\ LastStep.ok
          /\ ~DecimalMilli(Trim(LastStep.text)).ok)
          => call.outcome = "ValueError"

C7_Witness ==
    /\ call.op = "gain_get" /\ call.outcome = "VisaIOError"
    /\ Len(Chunk) = 3 /\ Chunk[3].k = "read" /\ ~Chunk[3].ok

\* C8: the PMT2100 gain getter appends, in this order, the gain-channel select
\* write, the amplitude query write and one read, and nothing else; when it
\* returns, it returns the voltage parsed from that read, and the response
\* "0.75" makes it return 0.75 V.
C8_GainGetterOrder ==
    [][call'.op = "gain_get" =>
          /\ log' = log \o <<W(CmdSelGain), W(CmdAmplQuery), log'[Len(log')]>>
          /\ log'[Len(log')].k = "read" /\ log'[Len(log')].ok
          /\ call'.outcome \in {"return", "ValueError"}
          /\ call'.outcome = "return"
                => DecimalMilli(Trim(log'[Len(log')].text))
                      = [ok |-> TRUE, val |-> call'.rnum]
          /\ log'[Len(log')].text = <<"0",".","7","5">>
                => call'.outcome = "return" /\ call'.rnum = 750]_vars

C8_Witness ==
    /\ call.op = "gain_get" /\ call.outcome = "return" /\ call.rnum = 750
    /\ Chunk = <<W(CmdSelGain), W(CmdAmplQuery), R(<<"0",".","7","5">>)>>

\* C9: the PMT2100 bandwidth getter performs one query exchange, the
\* filter-frequency query write followed by one read, and returns normally.
C9_BandwidthGetterQueries ==
    call.op = "bandwidth_get"
        => /\ call.outcome = "return"
           /\ Len(Chunk) = 2
           /\ Chunk[1].k = "write" /\ Chunk[1].cmd.verb = ":SENSe:FILTer:LPASs:FREQuency?"
           /\ Chunk[2].k = "read"

\* C10: the sensor-head identifier is queried once, at construction, and kept:
\* in every state the cached identifier is the response to that first query,
\* no later step sends the sensor-head query again, and every enabled
\* state-query and on/off command carries the cached identifier.
C10_SensorCachedOnce ==
    /\ log[1] = W(CmdDetect)
    /\ log[2] = R(sensor)
    /\ \A i \in DOMAIN log : i > 1 => log[i].cmd.verb # "SENS:DET?"
    /\ \A i \in DOMAIN log :
          log[i].cmd.verb \in {"SENS:FUNC:STAT?", "SENS:FUNC:ON", "SENS:FUNC:OFF"}
              => log[i].cmd.arg = sensor

C10_Witness ==
    /\ sensor = <<"H","7","4","2","2">>
    /\ ~open /\ call.op = "close"
    /\ \E i, j \in DOMAIN log :
          /\ i < j
          /\ log[i] = W(CmdOn(sensor))
          /\ log[j] = W(CmdState(sensor))

====
